---------------------------- MODULE Spec2Model ----------------------------
(***************************************************************************)
(* A model of polarstory's report builder (src/src/polarstory/report.py):  *)
(* the table renderer _pl_to_markdown_table, _slugify, and the Report      *)
(* document builder (parts, figure counter, serialisation, compile).       *)
(*                                                                         *)
(* Python strings are sequences of one-character strings, so that joins,   *)
(* strips, line counts and suffixes are computed character by character.   *)
(***************************************************************************)
EXTENDS Integers, Sequences, FiniteSets, TLC

VARIABLES
    table,          \* _pl_to_markdown_table's argument df
    align,          \* its argument align_first_col_left
    fmts,           \* its argument formatters
    md_table,       \* what the call returned or raised; Pending before it
    slug_in,        \* _slugify's argument
    slug,           \* _slugify(slug_in); Pending before the call
    slug2,          \* _slugify(slug); Pending before the call
    title,          \* Report.title
    author,         \* Report.author
    _parts,         \* Report._parts
    _image_counter, \* Report._image_counter
    assets,         \* the files of assets_dir: file name -> data
    md_file,        \* the text of md_path; NoneStr while it does not exist
    outputs,        \* the files the converter has written
    last,           \* the last call: the operation, how it ended, what it returned
    plot_files      \* the file names the add_plot calls that returned wrote

tableVars == <<table, align, fmts, md_table>>
slugVars == <<slug_in, slug, slug2>>
docVars == <<title, author, _parts, _image_counter, assets, md_file, outputs,
             last, plot_files>>
vars == <<table, align, fmts, md_table, slug_in, slug, slug2, title, author,
          _parts, _image_counter, assets, md_file, outputs, last, plot_files>>

(***************************************************************************)
(* Bounds of the model.                                                    *)
(***************************************************************************)
MaxCols == 2
MaxRows == 2
MaxText == 4
MaxParts == 4
MaxPlots == 3

(***************************************************************************)
(* String helpers (Python str methods used by the source).                 *)
(***************************************************************************)
NL == "\n"

RECURSIVE Concat(_)
\* ''.join(ss)
Concat(ss) == IF ss = <<>> THEN <<>> ELSE Head(ss) \o Concat(Tail(ss))

RECURSIVE Join(_, _)
\* sep.join(ss)
Join(sep, ss) ==
    IF ss = <<>> THEN <<>>
    ELSE IF Len(ss) = 1 THEN Head(ss)
    ELSE Head(ss) \o sep \o Join(sep, Tail(ss))

\* s.startswith(p)
StartsWith(s, p) == Len(s) >= Len(p) /\ SubSeq(s, 1, Len(p)) = p

\* the number of occurrences of character c in s
Count(s, c) == Cardinality({i \in 1..Len(s) : s[i] = c})

\* result.split('\n') has this many items
LineCount(s) == Count(s, NL) + 1

\* the items of s.split('\n')
SplitLines(s) ==
    LET cuts == {i \in 1..Len(s) : s[i] = NL}
        start(k) == IF k = 1 THEN 1
                    ELSE 1 + CHOOSE i \in cuts :
                             Cardinality({j \in cuts : j <= i}) = k - 1
        stop(k) == IF k = Cardinality(cuts) + 1 THEN Len(s)
                   ELSE (CHOOSE i \in cuts :
                             Cardinality({j \in cuts : j <= i}) = k) - 1
    IN  [k \in 1..(Cardinality(cuts) + 1) |-> SubSeq(s, start(k), stop(k))]

(***************************************************************************)
(* Character classes and the str methods of _slugify and pathlib.          *)
(***************************************************************************)
LowerChars == <<"a", "b", "c", "d", "e", "f", "g", "h", "i", "j", "k", "l", "m",
                "n", "o", "p", "q", "r", "s", "t", "u", "v", "w", "x", "y", "z">>
UpperChars == <<"A", "B", "C", "D", "E", "F", "G", "H", "I", "J", "K", "L", "M",
                "N", "O", "P", "Q", "R", "S", "T", "U", "V", "W", "X", "Y", "Z">>
DigitChars == {"0", "1", "2", "3", "4", "5", "6", "7", "8", "9"}
Whitespace == {" ", "\n", "\t", "\r"}

Range(f) == {f[i] : i \in DOMAIN f}

\* c matches \w: a letter, a digit or the underscore
IsWord(c) == c \in Range(LowerChars) \cup Range(UpperChars) \cup DigitChars \cup {"_"}

\* c.lower()
LowerChar(c) ==
    IF c \in Range(UpperChars)
    THEN LowerChars[CHOOSE i \in 1..26 : UpperChars[i] = c] ELSE c

\* s.lower()
Lower(s) == [i \in 1..Len(s) |-> LowerChar(s[i])]

RECURSIVE LStrip(_, _)
\* s.lstrip(chars)
LStrip(s, chars) ==
    IF s # <<>> /\ Head(s) \in chars THEN LStrip(Tail(s), chars) ELSE s

RECURSIVE RStrip(_, _)
\* s.rstrip(chars)
RStrip(s, chars) ==
    IF s # <<>> /\ s[Len(s)] \in chars
    THEN RStrip(SubSeq(s, 1, Len(s) - 1), chars) ELSE s

\* s.strip(chars)
Strip(s, chars) == RStrip(LStrip(s, chars), chars)

NotWordNorHyphen(c) == ~IsWord(c) /\ c # "-"
IsHyphen(c) == c = "-"

\* whether c is in the character set of the pattern: r'[^\w\-]' or r'-'
Hit(pattern, c) ==
    IF pattern = "[^\\w\\-]+" THEN NotWordNorHyphen(c) ELSE IsHyphen(c)

RECURSIVE SubRuns(_, _, _)
\* re.sub(pattern, '-', s): every maximal run of at least `least` characters
\* of the pattern's set becomes one '-'
SubRuns(s, pattern, least) ==
    IF s = <<>> THEN <<>>
    ELSE IF ~Hit(pattern, Head(s)) THEN <<Head(s)>> \o SubRuns(Tail(s), pattern, least)
    ELSE LET n == CHOOSE k \in 1..Len(s) :
                    /\ \A i \in 1..k : Hit(pattern, s[i])
                    /\ (k = Len(s) \/ ~Hit(pattern, s[k + 1]))
             rest == SubSeq(s, n + 1, Len(s))
         IN  (IF n >= least THEN <<"-">> ELSE SubSeq(s, 1, n))
                 \o SubRuns(rest, pattern, least)

Item == <<"i", "t", "e", "m">>

_slugifyMutant(t) ==
    LET t1 == Lower(Strip(t, Whitespace))
        t2 == SubRuns(t1, "-{2,}", 2)
        t3 == SubRuns(t2, "[^\\w\\-]+", 1)
        t4 == Strip(t3, {"-"})
    IN  IF t4 = <<>> THEN Item ELSE t4

_slugify(t) ==
    LET t1 == Lower(Strip(t, Whitespace))
        t2 == SubRuns(t1, "[^\\w\\-]+", 1)
        t3 == SubRuns(t2, "-{2,}", 2)
        t4 == Strip(t3, {"-"})
    IN  IF t4 = <<>> THEN Item ELSE t4

(***************************************************************************)
(* Number formatting: Python's format specs ',' and ',.2f'.                *)
(* An int is a TLA+ integer.  A float is the double nearest to m/10000:    *)
(* m is its decimal value in units of 1e-4 and e the sign of               *)
(* (double - m/10000), which is what decides a two-decimal rounding tie.   *)
(***************************************************************************)
DigitChar(d) == <<"0", "1", "2", "3", "4", "5", "6", "7", "8", "9">>[d + 1]

RECURSIVE Digits(_)
\* the decimal digits of n >= 0
Digits(n) == IF n < 10 THEN <<DigitChar(n)>>
             ELSE Digits(n \div 10) \o <<DigitChar(n % 10)>>

\* n >= 0 zero-padded to w digits (f'{n:0wd}')
ZeroPad(n, w) ==
    LET d == Digits(n)
    IN  IF Len(d) >= w THEN d ELSE [i \in 1..(w - Len(d)) |-> "0"] \o d

RECURSIVE Thousands(_)
\* n >= 0 with a comma every three digits
Thousands(n) == IF n < 1000 THEN Digits(n)
                ELSE Thousands(n \div 1000) \o <<",">> \o ZeroPad(n % 1000, 3)

Abs(n) == IF n < 0 THEN -n ELSE n

Sign(neg) == IF neg THEN <<"-">> ELSE <<>>

\* f'{n:,}' for an int
FormatIntComma(n) == Sign(n < 0) \o Thousands(Abs(n))

\* the hundredths nearest to |m|/10000: correct rounding of the double, the
\* tie decided by the side the double lies on, half-even when it is exact
RoundHundredths(m, e) ==
    LET a == Abs(m)
        q == a \div 100
        r == a % 100
        \* the error's sign relative to the magnitude
        s == IF m < 0 THEN -e ELSE e
    IN  IF r < 50 THEN q
        ELSE IF r > 50 THEN q + 1
        ELSE IF s < 0 THEN q
        ELSE IF s > 0 THEN q + 1
        ELSE IF q % 2 = 0 THEN q ELSE q + 1

\* h hundredths as '1,234.50'
FixedComma(neg, h) ==
    Sign(neg) \o Thousands(h \div 100) \o <<".">> \o ZeroPad(h % 100, 2)

\* h hundredths as '1234.50'
FixedPlain(neg, h) ==
    Sign(neg) \o Digits(h \div 100) \o <<".">> \o ZeroPad(h % 100, 2)

RECURSIVE StripZeros(_)
\* the fraction digits of repr(float): trailing zeros dropped, one kept
StripZeros(d) == IF Len(d) > 1 /\ d[Len(d)] = "0"
                 THEN StripZeros(SubSeq(d, 1, Len(d) - 1)) ELSE d

\* f'{x:,}' for a float: repr with thousands separators
FormatFloatComma(m) ==
    Sign(m < 0) \o Thousands(Abs(m) \div 10000) \o <<".">>
        \o StripZeros(ZeroPad(Abs(m) % 10000, 4))

(***************************************************************************)
(* Python values held by a table cell.                                     *)
(***************************************************************************)
None == [t |-> "None"]
IntVal(n) == [t |-> "int", n |-> n]
FloatVal(m, e) == [t |-> "float", m |-> m, e |-> e]
StrVal(s) == [t |-> "str", s |-> s]

\* what a call returns, or the exception it raises
Ret(s) == [raised |-> FALSE, s |-> s]
Raise(exc) == [raised |-> TRUE, exc |-> exc]

\* str(value)
PyStr(value) ==
    CASE value.t = "str" -> value.s
      [] value.t = "int" -> Sign(value.n < 0) \o Digits(Abs(value.n))
      [] value.t = "float" ->
            Sign(value.m < 0) \o Digits(Abs(value.m) \div 10000) \o <<".">>
                \o StripZeros(ZeroPad(Abs(value.m) % 10000, 4))
      [] OTHER -> <<"N", "o", "n", "e">>

\* f'{x:,.2f}' + suffix
FormatRound(value, suffix) ==
    CASE value.t = "int" ->
            Ret(FixedComma(value.n < 0, Abs(value.n) * 100) \o suffix)
      [] value.t = "float" ->
            Ret(FixedComma(value.m < 0, RoundHundredths(value.m, value.e))
                    \o suffix)
      [] OTHER -> Raise("ValueError")

\* f'{100 * x:,.2f}%': 100 * (m/10000) is m hundredths, a two-decimal
\* number, so the product's rounding error never reaches a tie
FormatPercent100(value) ==
    CASE value.t = "int" ->
            Ret(FixedComma(value.n < 0, Abs(value.n) * 10000) \o <<"%">>)
      [] value.t = "float" ->
            Ret(FixedComma(value.m < 0, Abs(value.m)) \o <<"%">>)
      [] OTHER -> Raise("ValueError")

\* f'{x:,}'
FormatRoundInt(value) ==
    CASE value.t = "int" -> Ret(FormatIntComma(value.n))
      [] value.t = "float" -> Ret(FormatFloatComma(value.m))
      [] OTHER -> Raise("ValueError")

BuiltinNames == {"percent", "percent100", "round", "round_int"}

default_formattersMutant(name, x) ==
    CASE name = "percent" -> FormatRound(x, <<"%">>)
      [] name = "percent100" -> FormatRound(x, <<"%">>)
      [] name = "round" -> FormatRound(x, <<>>)
      [] name = "round_int" -> FormatRoundInt(x)

\* default_formatters[name](x)
default_formatters(name, x) ==
    CASE name = "percent" -> FormatRound(x, <<"%">>)
      [] name = "percent100" -> FormatPercent100(x)
      [] name = "round" -> FormatRound(x, <<>>)
      [] name = "round_int" -> FormatRoundInt(x)

(***************************************************************************)
(* _pl_to_markdown_table.                                                  *)
(*                                                                         *)
(* A table df is [columns, dtype, rows]: the column names, the dtype name  *)
(* of each column (df[col].dtype) and the rows.  The formatters argument   *)
(* is None or a dict; a dict's keys are column names (str) or positions    *)
(* (int), held here as its two halves byName and byPos.  A dict value is a *)
(* built-in's name or a callable.                                          *)
(***************************************************************************)
NameRule(name) == [kind |-> "name", name |-> name]
CallableRule(fn) == [kind |-> "callable", fn |-> fn]

NoDict == [t |-> "None"]
Dict(byName, byPos) == [t |-> "dict", byName |-> byName, byPos |-> byPos]
EmptyDict == Dict(<<>>, <<>>)

\* default_formatters.get(v, v)
ResolveRule(v) ==
    IF v.kind = "name" /\ v.name \in BuiltinNames
    THEN CallableRule(v.name) ELSE v

\* formatters = formatters or dict();
\* formatters = {k: default_formatters.get(v, v) for k, v in formatters.items()}
ResolveFormatters(formatters) ==
    LET d == IF formatters.t = "None" THEN EmptyDict ELSE formatters
    IN  Dict([k \in DOMAIN d.byName |-> ResolveRule(d.byName[k])],
             [k \in DOMAIN d.byPos |-> ResolveRule(d.byPos[k])])

\* f(value) for a resolved dict value f: a built-in, the caller's function
\* (here lambda x: '#' + str(x)), or a str, which is not callable
CallRule(f, value) ==
    IF f.kind = "name" THEN Raise("TypeError")
    ELSE IF f.fn \in BuiltinNames THEN default_formatters(f.fn, value)
    ELSE Ret(<<"#">> \o PyStr(value))

\* dtypes[colname].startswith('Int') or dtypes[colname].startswith('UInt')
IsIntDtype(dtype) ==
    StartsWith(dtype, <<"I", "n", "t">>) \/ StartsWith(dtype, <<"U", "I", "n", "t">>)

\* dtypes[colname].startswith('Float')
IsFloatDtype(dtype) == StartsWith(dtype, <<"F", "l", "o", "a", "t">>)

FormatCellMutant(value, colname, j, dtype, fm) ==
    IF j \in DOMAIN fm.byPos THEN CallRule(fm.byPos[j], value)
    ELSE IF colname \in DOMAIN fm.byName THEN CallRule(fm.byName[colname], value)
    ELSE IF value.t = "None" THEN Ret(<<>>)
    ELSE IF IsIntDtype(dtype) THEN default_formatters("round_int", value)
    ELSE IF IsFloatDtype(dtype) THEN default_formatters("round", value)
    ELSE Ret(PyStr(value))

\* the body of the loop over a row: what is appended to curr_line
FormatCell(value, colname, j, dtype, fm) ==
    IF value.t = "None" THEN Ret(<<>>)
    ELSE IF colname \in DOMAIN fm.byName THEN CallRule(fm.byName[colname], value)
    ELSE IF j \in DOMAIN fm.byPos THEN CallRule(fm.byPos[j], value)
    ELSE IF IsIntDtype(dtype) THEN default_formatters("round_int", value)
    ELSE IF IsFloatDtype(dtype) THEN default_formatters("round", value)
    ELSE Ret(PyStr(value))

Min(a, b) == IF a < b THEN a ELSE b

\* '| ' + ' | '.join(items) + ' |'
PipeLine(items) == <<"|", " ">> \o Join(<<" ", "|", " ">>, items) \o <<" ", "|">>

AlignTokenMutant(i, align_first_col_left) ==
    IF align_first_col_left THEN <<":", "-", "-">> ELSE <<"-", "-", ":">>

\* the token appended to aligns for column i (0-based)
AlignToken(i, align_first_col_left) ==
    IF i = 0 /\ align_first_col_left THEN <<":", "-", "-">> ELSE <<"-", "-", ":">>

\* the cells of one row, each a Ret or a Raise; zip stops at the shorter
RowCells(df, row, fm) ==
    [j \in 1..Min(Len(row), Len(df.columns)) |->
        FormatCell(row[j], df.columns[j], j - 1, df.dtype[df.columns[j]], fm)]

\* the lines appended after the header and the alignment row
DataLines(lines) == lines

_pl_to_markdown_table(df, align_first_col_left, formatters) ==
    LET headers == df.columns
        rows == df.rows
        fm == ResolveFormatters(formatters)
        header_line == PipeLine(headers)
        aligns == [i \in 1..Len(headers) |-> AlignToken(i - 1, align_first_col_left)]
        sep_line == PipeLine(aligns)
        cells == [i \in 1..Len(rows) |-> RowCells(df, rows[i], fm)]
        bad == {p \in (1..Len(rows)) \X (1..Len(headers)) :
                    p[2] <= Len(cells[p[1]]) /\ cells[p[1]][p[2]].raised}
        first == CHOOSE p \in bad : \A q \in bad :
                    p[1] < q[1] \/ (p[1] = q[1] /\ p[2] <= q[2])
        data == [i \in 1..Len(rows) |->
                    PipeLine([j \in 1..Len(cells[i]) |-> cells[i][j].s])]
        lines == <<header_line, sep_line>> \o DataLines(data)
    IN  IF bad # {} THEN Raise(cells[first[1]][first[2]].exc)
        ELSE Ret(Join(<<NL>>, lines))

(***************************************************************************)
(* The tables, formatter dicts and values the renderer is applied to.      *)
(***************************************************************************)
Int64 == <<"I", "n", "t", "6", "4">>
UInt8 == <<"U", "I", "n", "t", "8">>
Float64 == <<"F", "l", "o", "a", "t", "6", "4">>
String == <<"S", "t", "r", "i", "n", "g">>
Dtypes == {Int64, UInt8, Float64, String}

\* the name of the column at position i (0-based): 'c0', 'c1', ...
ColName(i) == <<"c", DigitChar(i)>>

Headers(m) == [i \in 1..m |-> ColName(i - 1)]

RowKinds == {"small", "big", "nullfirst"}

\* the value a row of kind k holds in column j (0-based) of dtype d
CellValue(d, k, j) ==
    IF k = "nullfirst" /\ j = 0 THEN None
    ELSE IF IsIntDtype(d) THEN (IF k = "big" THEN IntVal(1234567) ELSE IntVal(7))
    ELSE IF IsFloatDtype(d)
         THEN (IF k = "big" THEN FloatVal(12345000, 0) ELSE FloatVal(1234, -1))
    ELSE (IF k = "big" THEN StrVal(<<"x", NL, "y">>) ELSE StrVal(<<"A">>))

MakeTable(dts, kinds) ==
    LET cols == Headers(Len(dts))
    IN  [columns |-> cols,
         dtype |-> [c \in {cols[i] : i \in 1..Len(cols)} |->
                        dts[CHOOSE i \in 1..Len(cols) : cols[i] = c]],
         rows |-> [r \in 1..Len(kinds) |->
                        [j \in 1..Len(cols) |-> CellValue(dts[j], kinds[r], j - 1)]]]

SeqsUpTo(S, n) == UNION {[1..k -> S] : k \in 0..n}

Tables == {MakeTable(dts, kinds) :
              dts \in SeqsUpTo(Dtypes, MaxCols), kinds \in SeqsUpTo(RowKinds, MaxRows)}

TableRules == {NameRule("round_int"), CallableRule("tag")}

\* the dicts with at most one name key and at most one position key
Dicts(names, positions, rules) ==
    {Dict(n, p) :
        n \in {<<>>} \cup UNION {[{k} -> rules] : k \in names},
        p \in {<<>>} \cup UNION {[{k} -> rules] : k \in positions}}

TableFormatters ==
    {NoDict} \cup Dicts({ColName(i) : i \in 0..(MaxCols - 1)}, 0..(MaxCols - 1), TableRules)

Pending == [raised |-> FALSE, pending |-> TRUE]
IsPending(r) == "pending" \in DOMAIN r

(***************************************************************************)
(* The renderer applied to its inputs.                                     *)
(***************************************************************************)
\* Python's None where a str is optional
NoneStr == <<"None">>

\* the record of a call that returned, or that raised exc (caused by cause)
Done(op) == [op |-> op, exc |-> "None", cause |-> "None"]
Failed(op, exc, cause) == [op |-> op, exc |-> exc, cause |-> cause]

\* no Report has been constructed
NoReport ==
    /\ title = <<>>
    /\ author = NoneStr
    /\ _parts = <<>>
    /\ _image_counter = 0
    /\ assets = <<>>
    /\ md_file = NoneStr
    /\ outputs = {}
    /\ plot_files = <<>>
    /\ last = Done("none")

NoSlugCall ==
    /\ slug_in = <<>>
    /\ slug = Pending
    /\ slug2 = Pending

InitTable ==
    /\ table \in Tables
    /\ align \in BOOLEAN
    /\ fmts \in TableFormatters
    /\ md_table = Pending
    /\ NoSlugCall
    /\ NoReport

\* md_table = _pl_to_markdown_table(table, align, fmts)
RenderTable ==
    /\ IsPending(md_table)
    /\ md_table' = _pl_to_markdown_table(table, align, fmts)
    /\ UNCHANGED <<table, align, fmts, slugVars, docVars>>

NextTable == RenderTable

SpecTable == InitTable /\ [][NextTable]_vars

(***************************************************************************)
(* The renderer applied to one cell under one formatter rule.              *)
(***************************************************************************)
FmtValues ==
    {None, StrVal(<<"A">>),
     IntVal(0), IntVal(7), IntVal(100000), IntVal(-1234),
     FloatVal(0, 0), FloatVal(1234, -1), FloatVal(12345000, 0),
     FloatVal(1250, 0), FloatVal(26750, -1), FloatVal(123450, 1),
     FloatVal(50, 1), FloatVal(-12345678, -1)}

FmtRules ==
    {NameRule(n) : n \in BuiltinNames \cup {"pct"}} \cup {CallableRule("tag")}

\* the dtype polars gives a column holding value v
DtypeOf(v) ==
    CASE v.t = "int" -> Int64
      [] v.t = "float" -> Float64
      [] v.t = "str" -> String
      [] OTHER -> Float64

OneCellTable(v) ==
    [columns |-> Headers(1),
     dtype |-> [c \in {ColName(0)} |-> DtypeOf(v)],
     rows |-> <<<<v>>>>]

InitFmt ==
    /\ table \in {OneCellTable(v) : v \in FmtValues}
    /\ align \in BOOLEAN
    /\ fmts \in Dicts({ColName(0)}, {0}, FmtRules) \ {EmptyDict}
    /\ md_table = Pending
    /\ NoSlugCall
    /\ NoReport

SpecFmt == InitFmt /\ [][NextTable]_vars

(***************************************************************************)
(* Claims about the table renderer.                                        *)
(***************************************************************************)
Rendered == ~IsPending(md_table) /\ ~md_table.raised

\* the rule a dict value stands for, applied to a value: a built-in by its
\* name, the caller's function, or a str that cannot be called
ApplyGiven(rule, value) ==
    IF rule.kind = "callable" THEN Ret(<<"#">> \o PyStr(value))
    ELSE IF rule.name \in BuiltinNames THEN default_formatters(rule.name, value)
    ELSE Raise("TypeError")

\* the rules that apply to the cell of column j (0-based), in the order of
\* their precedence: name-keyed, position-keyed, type default, str
Applicable(j) ==
    LET col == table.columns[j + 1]
        d == IF fmts.t = "None" THEN EmptyDict ELSE fmts
        dt == table.dtype[col]
    IN  (IF col \in DOMAIN d.byName THEN <<d.byName[col]>> ELSE <<>>)
        \o (IF j \in DOMAIN d.byPos THEN <<d.byPos[j]>> ELSE <<>>)
        \o (IF dt \in {Int64, UInt8} THEN <<NameRule("round_int")>> ELSE <<>>)
        \o (IF dt = Float64 THEN <<NameRule("round")>> ELSE <<>>)
        \o <<CallableRule("str")>>

ExpectedCell(i, j) ==
    LET value == table.rows[i][j + 1]
        rule == Head(Applicable(j))
    IN  IF value.t = "None" THEN Ret(<<>>)
        ELSE IF rule = CallableRule("str") THEN Ret(PyStr(value))
        ELSE ApplyGiven(rule, value)

CellPlaces == {p \in (1..Len(table.rows)) \X (0..(Len(table.columns) - 1)) : TRUE}

ExpectedText ==
    Join(<<NL>>,
         <<PipeLine(table.columns),
           PipeLine([j \in 1..Len(table.columns) |-> AlignToken(j - 1, align)])>>
         \o [i \in 1..Len(table.rows) |->
                PipeLine([j \in 1..Len(table.columns) |-> ExpectedCell(i, j - 1).s])])

\* C1: every non-None cell is formatted by the first applicable rule in the
\* order name-keyed formatter, position-keyed formatter, type default, str;
\* a None cell renders as the empty string whatever formatters are given.
C1_FormatterPrecedence ==
    ~IsPending(md_table) =>
        IF \E p \in CellPlaces : ExpectedCell(p[1], p[2]).raised
        THEN md_table.raised
        ELSE ~md_table.raised /\ md_table.s = ExpectedText

\* a rendered table in which column 0 has a name-keyed and a different
\* position-keyed formatter, a non-None cell and a None cell
C1_Witness ==
    /\ Rendered
    /\ fmts.t = "dict"
    /\ Len(table.columns) >= 1
    /\ ColName(0) \in DOMAIN fmts.byName
    /\ 0 \in DOMAIN fmts.byPos
    /\ fmts.byName[ColName(0)] # fmts.byPos[0]
    /\ \E i \in 1..Len(table.rows) : table.rows[i][1].t = "None"
    /\ \E i \in 1..Len(table.rows) : table.rows[i][1].t # "None"

\* C2: the rendered table of an input with N rows has exactly N+2 lines.
C2_LineCount ==
    Rendered => LineCount(md_table.s) = Len(table.rows) + 2

\* C3: the alignment row has one token per column, the first ':--' iff the
\* left-align flag is set and '--:' otherwise, every later token '--:'.
C3_AlignmentRow ==
    Rendered =>
        LET tokens == [j \in 1..Len(table.columns) |->
                          IF j = 1 /\ align THEN <<":", "-", "-">>
                          ELSE <<"-", "-", ":">>]
        IN  SplitLines(md_table.s)[2] =
                <<"|", " ">> \o Join(<<" ", "|", " ">>, tokens) \o <<" ", "|">>

\* a rendered table of two or more columns with the left-align flag set
C3_Witness ==
    Rendered /\ align /\ Len(table.columns) >= 2 /\ Len(table.rows) >= 1

\* the value of a numeric cell in hundredths, rounded as ',.2f' rounds it
Hundredths(v) ==
    IF v.t = "int" THEN Abs(v.n) * 100 ELSE RoundHundredths(v.m, v.e)

\* 100 times the value of a numeric cell, in hundredths
Hundredths100(v) == IF v.t = "int" THEN Abs(v.n) * 10000 ELSE Abs(v.m)

IsNegative(v) == IF v.t = "int" THEN v.n < 0 ELSE v.m < 0

\* the text format "{:,}" gives a numeric cell
CommaFormat(v) ==
    IF v.t = "int" THEN FormatIntComma(v.n) ELSE FormatFloatComma(v.m)

\* what the built-in `name` prescribes for a numeric cell; the percent
\* formats are "{:.2f}%" when plain and "{:,.2f}%" otherwise
Prescribed(name, v, plain) ==
    LET fixed(h) == IF plain THEN FixedPlain(IsNegative(v), h)
                    ELSE FixedComma(IsNegative(v), h)
    IN  CASE name = "percent" -> fixed(Hundredths(v)) \o <<"%">>
          [] name = "percent100" -> fixed(Hundredths100(v)) \o <<"%">>
          [] name = "round" -> FixedComma(IsNegative(v), Hundredths(v))
          [] name = "round_int" -> CommaFormat(v)

\* the one rule of the dict and the one cell it is applied to
TheRule ==
    IF DOMAIN fmts.byName # {} THEN fmts.byName[ColName(0)] ELSE fmts.byPos[0]

NamedOnNumber ==
    /\ ~IsPending(md_table)
    /\ TheRule.kind = "name"
    /\ TheRule.name \in BuiltinNames
    /\ table.rows[1][1].t \in {"int", "float"}

CellText(text) ==
    Join(<<NL>>, <<PipeLine(table.columns),
                   PipeLine(<<AlignToken(0, align)>>),
                   PipeLine(<<text>>)>>)

\* C4 as stated: 'percent' and 'percent100' format as "{:.2f}%", 'round' as
\* two-decimal thousands-separated, 'round_int' as thousands-separated.
C4_Original ==
    NamedOnNumber =>
        /\ ~md_table.raised
        /\ md_table.s = CellText(Prescribed(TheRule.name, table.rows[1][1], TRUE))

\* C4 amended: 'percent' formats the value as "{:,.2f}%" and 'percent100'
\* the value times 100 as "{:,.2f}%", both thousands-separated; 'round' is
\* "{:,.2f}" and 'round_int' is "{:,}".
C4_NamedFormatters ==
    NamedOnNumber =>
        /\ ~md_table.raised
        /\ md_table.s = CellText(Prescribed(TheRule.name, table.rows[1][1], FALSE))

\* 'percent100' rendered 0.1234 as 12.34%
C4_Witness ==
    /\ NamedOnNumber
    /\ TheRule.name = "percent100"
    /\ table.rows[1][1] = FloatVal(1234, -1)
    /\ md_table = Ret(CellText(<<"1", "2", ".", "3", "4", "%">>))

(***************************************************************************)
(* _slugify applied to a string, and again to its result.                  *)
(***************************************************************************)
SlugAlphabet == {"a", "B", "1", "_", "-", " ", "!"}

NoTableCall ==
    /\ table = MakeTable(<<>>, <<>>)
    /\ align = TRUE
    /\ fmts = NoDict
    /\ md_table = Pending

InitSlug ==
    /\ slug_in \in SeqsUpTo(SlugAlphabet, MaxText)
    /\ slug = Pending
    /\ slug2 = Pending
    /\ NoTableCall
    /\ NoReport

\* slug = _slugify(slug_in)
Slugify ==
    /\ IsPending(slug)
    /\ slug' = Ret(_slugify(slug_in))
    /\ UNCHANGED <<slug_in, slug2, tableVars, docVars>>

\* slug2 = _slugify(slug)
SlugifyAgain ==
    /\ ~IsPending(slug)
    /\ IsPending(slug2)
    /\ slug2' = Ret(_slugify(slug.s))
    /\ UNCHANGED <<slug_in, slug, tableVars, docVars>>

NextSlug == Slugify \/ SlugifyAgain

SpecSlug == InitSlug /\ [][NextSlug]_vars

\* the characters a slug keeps: word characters (letters, digits, '_')
OnlySymbols(t, symbols) == \A i \in 1..Len(t) : t[i] \in symbols

\* C10 as stated: slugify(slugify(s)) = slugify(s), and an empty or
\* symbol-only string (no letter and no digit) slugifies to 'item'.
C10_Original ==
    /\ ~IsPending(slug2) => slug2 = slug
    /\ (~IsPending(slug) /\ OnlySymbols(slug_in, {"_", "-", " ", "!"}))
            => slug.s = Item

\* C10 amended: slugify(slugify(s)) = slugify(s), and an empty string or a
\* string with no word character (no letter, digit or underscore)
\* slugifies to 'item'.
C10_SlugIdempotent ==
    /\ ~IsPending(slug2) => slug2 = slug
    /\ (~IsPending(slug) /\ OnlySymbols(slug_in, {"-", " ", "!"}))
            => slug.s = Item

\* a string of mixed case, blanks, symbols and hyphens slugified twice
C10_Witness ==
    /\ ~IsPending(slug2)
    /\ slug.s # slug_in
    /\ slug.s # Item
    /\ \E i \in 1..Len(slug_in) : slug_in[i] = "B"
    /\ \E i \in 1..Len(slug_in) : slug_in[i] \in {" ", "!"}

(***************************************************************************)
(* The Report document builder.                                            *)
(*                                                                         *)
(* An optional str argument is a string or NoneStr (Python's None).  A     *)
(* path is the string of its characters, '/' between its components.       *)
(***************************************************************************)
\* bool(s) for an optional str: None and '' are false
Truthy(s) == s # NoneStr /\ s # <<>>

\* the last '/' of p, 0 when it has none
LastSlash(p) ==
    IF \E i \in 1..Len(p) : p[i] = "/"
    THEN CHOOSE i \in 1..Len(p) : p[i] = "/" /\ \A k \in (i + 1)..Len(p) : p[k] # "/"
    ELSE 0

\* Path(p).name
PathName(p) == SubSeq(p, LastSlash(p) + 1, Len(p))

\* the place of the dot that starts Path(p).suffix in PathName(p), 0 when
\* the name has no suffix (no dot, a leading dot only, or a trailing dot)
SuffixDot(p) ==
    LET name == PathName(p)
        dots == {i \in 1..Len(name) : name[i] = "."}
        i == CHOOSE d \in dots : \A k \in dots : k <= d
    IN  IF dots = {} THEN 0
        ELSE IF i > 1 /\ i < Len(name) THEN i ELSE 0

\* Path(p).suffix
PathSuffix(p) ==
    LET name == PathName(p)
    IN  IF SuffixDot(p) = 0 THEN <<>> ELSE SubSeq(name, SuffixDot(p), Len(name))

\* Path(p).stem
PathStem(p) ==
    LET name == PathName(p)
    IN  IF SuffixDot(p) = 0 THEN name ELSE SubSeq(name, 1, SuffixDot(p) - 1)

\* Path(p).with_suffix(suffix)
WithSuffix(p, suffix) == SubSeq(p, 1, LastSlash(p)) \o PathStem(p) \o suffix

\* Path(dir) / name
PathJoin(dir, name) == dir \o <<"/">> \o name

\* the working directory relative paths resolve against
Cwd == <<"/", "w">>

\* Path(p).resolve() of a normalised path in a tree without links
Resolve(p) == IF p # <<>> /\ Head(p) = "/" THEN p ELSE PathJoin(Cwd, p)

\* the dataclass fields left at their defaults
out_dir == <<"/", "o">>
md_filename == <<"r", "e", "p", "o", "r", "t", ".", "m", "d">>
assets_dirname == <<"a", "s", "s", "e", "t", "s">>
assets_dir == PathJoin(out_dir, assets_dirname)
md_path == PathJoin(out_dir, md_filename)

\* f'{self.created:%Y-%m-%d %H:%M}' of the Report's creation time
CreatedText == <<"2", "0", "2", "4", "-", "0", "1", "-", "0", "2", " ", "0", "3", ":", "0", "4">>

Max(a, b) == IF a > b THEN a ELSE b

\* the part add_heading appends
HeadingPart(htext, level) ==
    LET l == Max(1, Min(level, 6))
    IN  [i \in 1..l |-> "#"] \o <<" ">> \o htext

\* the metadata line __post_init__ appends
MetaPart(auth) ==
    Join(<<" ", "|", " ">>,
         <<<<"G", "e", "n", "e", "r", "a", "t", "e", "d", ":", " ">> \o CreatedText>>
         \o (IF Truthy(auth) THEN <<<<"A", "u", "t", "h", "o", "r", ":", " ">> \o auth>> ELSE <<>>))

\* f'{{ width="{width}" }}' if width else ''
WidthAttr(width) ==
    IF Truthy(width) THEN <<"{", " ", "w", "i", "d", "t", "h", "=", "\"">> \o width \o <<"\"", " ", "}">> ELSE <<>>

\* f'\n\n{caption}' if caption else ''
CaptionText(caption) == IF Truthy(caption) THEN <<NL, NL>> \o caption ELSE <<>>

\* the part add_image and add_plot append
ImagePart(alt, filename, width, caption) ==
    <<"!", "[">> \o alt \o <<"]", "(">> \o assets_dirname \o <<"/">> \o filename \o <<")">>
        \o WidthAttr(width) \o CaptionText(caption)

\* f'figure-{self._image_counter:03d}.png'
figure_filename(n) == <<"f", "i", "g", "u", "r", "e", "-">> \o ZeroPad(n, 3) \o <<".", "p", "n", "g">>

\* the contents a file has after dest is written with data
WriteFile(files, dest, data) ==
    [f \in DOMAIN files \cup {dest} |-> IF f = dest THEN data ELSE files[f]]

\* Report.to_markdown
to_markdown(parts) ==
    LET content == [k \in 1..(2 * Len(parts) - 1) |->
                       IF k % 2 = 1 THEN RStrip(parts[(k + 1) \div 2], Whitespace)
                       ELSE <<>>]
    IN  IF parts = <<>> THEN <<>> ELSE Join(<<NL>>, content)

\* the text save_markdown writes
MarkdownFile(parts) == to_markdown(parts) \o <<NL>>

(***************************************************************************)
(* The arguments the Report's operations are called with.                  *)
(***************************************************************************)
Titles == {<<"T">>, <<"A", " ", "b">>}
Authors == {NoneStr, <<"B">>}

HeadingLevels == {0, 2, 7}
ParagraphTexts == {<<>>, <<"p">>}
MarkdownTexts == {<<"m", " ", "\n">>, <<" ">>}

\* a polars.DataFrame, an object exposing .columns and .rows(), or neither
TableObjects ==
    {[kind |-> "DataFrame", df |-> MakeTable(<<String, Int64>>, <<"small", "nullfirst">>)],
     [kind |-> "DataFrame", df |-> MakeTable(<<Float64>>, <<>>)],
     [kind |-> "object", df |-> MakeTable(<<String>>, <<"big">>)],
     [kind |-> "other", df |-> MakeTable(<<>>, <<>>)]}

\* the image files outside the report's directory, each with its data
SourceFiles ==
    (<<"/", "i", "/", "A", " ", "b", ".", "P", "N", "G">> :> "img1") @@ (<<"/", "i", "/", "a", "-", "b", ".", "p", "n", "g">> :> "img2")
        @@ (<<"/", "i", "/", "f", "i", "g", "u", "r", "e", "-", "0", "0", "1", ".", "p", "n", "g">> :> "img3")

\* the paths add_image is called with: the files above, a file that does
\* not exist, and a file of the report's own assets directory
ImagePaths ==
    DOMAIN SourceFiles \cup {<<"/", "i", "/", "n", "o", ".", "p", "n", "g">>, <<"/", "o", "/", "a", "s", "s", "e", "t", "s", "/", "a", "-", "b", ".", "p", "n", "g">>}

\* caption and width, both optional
Decorations == {<<NoneStr, NoneStr>>, <<<<"c">>, <<"8", "0", "%">>>>}

\* a matplotlib Figure, an Axes of that Figure, a plotly figure, anything
\* else; data is the image the figure rasterises to
Figures ==
    {[kind |-> "Figure", data |-> "fig1"], [kind |-> "Axes", data |-> "fig1"],
     [kind |-> "plotly", data |-> "fig2"], [kind |-> "other", data |-> "none"]}

\* what the imports of matplotlib and plotly and kaleido's export find: all
\* three installed, or one of them missing
PlotProbes ==
    {pr \in [matplotlib : BOOLEAN, plotly : BOOLEAN, kaleido : BOOLEAN] :
        Cardinality({m \in {"matplotlib", "plotly", "kaleido"} : ~pr[m]}) <= 1}

(***************************************************************************)
(* Report.__post_init__: the state after construction.                     *)
(***************************************************************************)
NewReport(titles, authors) ==
    /\ title \in titles
    /\ author \in authors
    /\ _parts = <<HeadingPart(title, 1), MetaPart(author)>>
    /\ _image_counter = 0
    /\ assets = <<>>
    /\ md_file = NoneStr
    /\ outputs = {}
    /\ plot_files = <<>>

Init ==
    /\ NewReport({<<"T">>}, Authors)
    /\ last = Done("__post_init__")
    /\ NoTableCall
    /\ NoSlugCall

(***************************************************************************)
(* The operations that add parts.                                          *)
(***************************************************************************)
add_heading(htext, level) ==
    /\ Len(_parts) < MaxParts
    /\ _parts' = Append(_parts, HeadingPart(htext, level))
    /\ last' = Done("add_heading")
    /\ UNCHANGED <<title, author, _image_counter, assets, md_file, outputs, plot_files>>

add_paragraphMutant(ptext) ==
    /\ Len(_parts) < MaxParts
    /\ _parts' = <<ptext>> \o _parts
    /\ last' = Done("add_paragraph")
    /\ UNCHANGED <<title, author, _image_counter, assets, md_file, outputs, plot_files>>

add_paragraph(ptext) ==
    /\ Len(_parts) < MaxParts
    /\ _parts' = Append(_parts, ptext)
    /\ last' = Done("add_paragraph")
    /\ UNCHANGED <<title, author, _image_counter, assets, md_file, outputs, plot_files>>

add_markdown(md) ==
    /\ Len(_parts) < MaxParts
    /\ _parts' = Append(_parts, RStrip(md, Whitespace))
    /\ last' = Done("add_markdown")
    /\ UNCHANGED <<title, author, _image_counter, assets, md_file, outputs, plot_files>>

AddRenderedMutant(name, tbl, rendered) ==
    /\ Len(_parts) + 2 <= MaxParts
    /\ IF tbl.kind = "other"
       THEN /\ last' = Failed("add_table", "TypeError", "None")
            /\ _parts' = Append(_parts, HeadingPart(name, 3))
       ELSE IF rendered.raised
       THEN /\ last' = Failed("add_table", rendered.exc, "None")
            /\ _parts' = Append(_parts, HeadingPart(name, 3))
       ELSE /\ _parts' = _parts \o <<HeadingPart(name, 3),
                                     RStrip(rendered.s, Whitespace)>>
            /\ last' = Done("add_table")
    /\ UNCHANGED <<title, author, _image_counter, assets, md_file, outputs, plot_files>>

\* add_table once the table is rendered
AddRendered(name, tbl, rendered) ==
    /\ Len(_parts) + 2 <= MaxParts
    /\ IF tbl.kind = "other"
       THEN /\ last' = Failed("add_table", "TypeError", "None")
            /\ UNCHANGED _parts
       ELSE IF rendered.raised
       THEN /\ last' = Failed("add_table", rendered.exc, "None")
            /\ UNCHANGED _parts
       ELSE /\ _parts' = _parts \o <<HeadingPart(name, 3),
                                     RStrip(rendered.s, Whitespace)>>
            /\ last' = Done("add_table")
    /\ UNCHANGED <<title, author, _image_counter, assets, md_file, outputs, plot_files>>

add_table(name, tbl, align_first_col_left) ==
    AddRendered(name, tbl, _pl_to_markdown_table(tbl.df, align_first_col_left, NoDict))

\* image_path.exists()
Exists(image_path) ==
    \/ image_path \in DOMAIN SourceFiles
    \/ \E f \in DOMAIN assets : image_path = PathJoin(assets_dir, f)

\* the data read from image_path
FileData(image_path) ==
    IF image_path \in DOMAIN SourceFiles THEN SourceFiles[image_path]
    ELSE assets[PathName(image_path)]

add_image(image_path, caption, width) ==
    LET ext == Lower(PathSuffix(image_path))
        safe_name == _slugify(PathStem(image_path)) \o ext
        dest == PathJoin(assets_dir, safe_name)
    IN  /\ Len(_parts) < MaxParts
        /\ IF ~Exists(image_path)
           THEN /\ last' = Failed("add_image", "FileNotFoundError", "None")
                /\ UNCHANGED <<_parts, assets>>
           ELSE /\ assets' = IF Resolve(image_path) # Resolve(dest)
                             THEN WriteFile(assets, safe_name, FileData(image_path))
                             ELSE assets
                /\ _parts' = Append(_parts,
                        ImagePart(PathStem(image_path), safe_name, width, caption))
                /\ last' = Done("add_image")
        /\ UNCHANGED <<title, author, _image_counter, md_file, outputs, plot_files>>

\* _detect_mpl_figure(fig) is not None
IsMplFigure(fig, probe) == probe.matplotlib /\ fig.kind \in {"Figure", "Axes"}

\* the exception _save_plotly_figure raises, "None" when it writes the file
SavePlotlyError(fig, probe) ==
    IF ~probe.plotly THEN "RuntimeError: Plotly is not installed"
    ELSE IF fig.kind # "plotly" \/ ~probe.kaleido
    THEN "RuntimeError: Failed to export Plotly figure"
    ELSE "None"

add_plot(fig, caption, width, probe) ==
    LET counter == _image_counter + 1
        filename == figure_filename(counter)
        cause == IF IsMplFigure(fig, probe) THEN "None" ELSE SavePlotlyError(fig, probe)
    IN  /\ _image_counter < MaxPlots
        /\ Len(_parts) < MaxParts
        /\ _image_counter' = counter
        /\ IF cause # "None"
           THEN /\ last' = Failed("add_plot", "TypeError", cause)
                /\ UNCHANGED <<_parts, assets, plot_files>>
           ELSE /\ assets' = WriteFile(assets, filename, fig.data)
                /\ _parts' = Append(_parts,
                        ImagePart(<<"F", "i", "g", "u", "r", "e", " ">> \o Digits(counter), filename, width, caption))
                /\ plot_files' = Append(plot_files, filename)
                /\ last' = Done("add_plot")
        /\ UNCHANGED <<title, author, md_file, outputs>>

save_markdown ==
    /\ md_file' = MarkdownFile(_parts)
    /\ last' = Done("save_markdown")
    /\ UNCHANGED <<title, author, _parts, _image_counter, assets, outputs, plot_files>>

(***************************************************************************)
(* Report.compile.                                                         *)
(***************************************************************************)
\* wsl_mount=True
TrueVal == <<"True">>
\* extra_args=None
NoArgs == <<NoneStr>>

Pdf == <<"p", "d", "f">>

\* the engines _pick_pdf_engine tries, in its order
Engines == <<<<"w", "k", "h", "t", "m", "l", "t", "o", "p", "d", "f">>, <<"w", "e", "a", "s", "y", "p", "r", "i", "n", "t">>, <<"x", "e", "l", "a", "t", "e", "x">>, <<"p", "d", "f", "l", "a", "t", "e", "x">>>>

\* the first engine shutil.which finds, None when it finds none
_pick_pdf_engine(available) ==
    IF \E i \in 1..Len(Engines) : Engines[i] \in available
    THEN Engines[CHOOSE i \in 1..Len(Engines) :
                    /\ Engines[i] \in available
                    /\ \A k \in 1..(i - 1) : Engines[k] \notin available]
    ELSE NoneStr

\* s.replace('\\', '/')
ReplaceBackslash(s) == [i \in 1..Len(s) |-> IF s[i] = "\\" THEN "/" ELSE s[i]]

wsl_str(path, mnt) ==
    IF Truthy(mnt)
    THEN LET p == Resolve(path)
             drive == LowerChar(p[1])
             path_no_drive == ReplaceBackslash(SubSeq(p, 3, Len(p)))
         IN  <<"/">> \o mnt \o <<"/", drive>> \o path_no_drive
    ELSE path

CompileArgs ==
    [output : {NoneStr, <<"r", ".", "h", "t", "m", "l">>, <<"r", ".", "P", "D", "F">>, <<"r">>},
     to : {NoneStr, Pdf, <<"h", "t", "m", "l">>, <<"d", "o", "c", "x">>},
     pdf_engine : {NoneStr, <<"w", "e", "a", "s", "y", "p", "r", "i", "n", "t">>},
     extra_args : {NoArgs, <<<<"-", "-", "t", "o", "c">>, <<"-", "N">>>>},
     open_after : BOOLEAN,
     print_command_only : BOOLEAN,
     wsl_mount : {NoneStr, <<"m", "n", "t">>, TrueVal}]

\* what shutil.which finds and whether the converter exits with status 0
CompileProbes ==
    [pandoc : BOOLEAN,
     engines : {{}, {<<"p", "d", "f", "l", "a", "t", "e", "x">>}, {<<"p", "d", "f", "l", "a", "t", "e", "x">>, <<"w", "e", "a", "s", "y", "p", "r", "i", "n", "t">>}},
     run_ok : BOOLEAN]

\* print_command_only after `if wsl_mount: print_command_only = True`
PrintOnly(args) == args.print_command_only \/ Truthy(args.wsl_mount)

\* wsl_mount after `if wsl_mount is True: wsl_mount = 'mnt'`
Mount(args) == IF args.wsl_mount = TrueVal THEN <<"m", "n", "t">> ELSE args.wsl_mount

\* output after `if output is None: ...; output = Path(output)`
DefaultedOutput(args) ==
    IF args.output = NoneStr
    THEN PathJoin(out_dir,
            _slugify(title)
                \o (IF args.to = NoneStr \/ Lower(args.to) = Pdf THEN <<".", "p", "d", "f">>
                    ELSE <<".">> \o Lower(args.to)))
    ELSE args.output

\* `to` after the format is determined, output being the defaulted path
ResolvedTo(args, output) ==
    IF args.to = NoneStr
    THEN Lower(LStrip(PathSuffix(output), {"."}))
    ELSE args.to

\* `output` after the format is determined, output being the defaulted path
ResolvedOutput(args, output) ==
    IF args.to = NoneStr THEN output
    ELSE IF Lower(PathSuffix(output)) # <<".">> \o args.to
    THEN WithSuffix(output, <<".">> \o args.to)
    ELSE output

\* engine = pdf_engine or self._pick_pdf_engine()
ResolvedEngine(args, probe) ==
    IF Truthy(args.pdf_engine) THEN args.pdf_engine
    ELSE _pick_pdf_engine(probe.engines)

\* cmd as compile builds it for the format `to` and the path `output`
BuildCommand(args, probe, to, output) ==
    <<<<"p", "a", "n", "d", "o", "c">>, <<"-", "s">>, <<"-", "-", "f", "r", "o", "m">>, <<"g", "f", "m">>, wsl_str(md_path, Mount(args)),
      <<"-", "o">>, wsl_str(output, Mount(args)),
      <<"-", "-", "r", "e", "s", "o", "u", "r", "c", "e", "-", "p", "a", "t", "h">>, wsl_str(assets_dir, Mount(args)),
      <<"-", "M">>, <<"t", "i", "t", "l", "e", "=">> \o title,
      <<"-", "M">>, <<"a", "u", "t", "h", "o", "r", "=">> \o (IF Truthy(author) THEN author ELSE <<>>),
      <<"-", "M">>, <<"d", "a", "t", "e", "=">> \o CreatedText>>
        \o (IF to = Pdf
            THEN <<<<"-", "-", "p", "d", "f", "-", "e", "n", "g", "i", "n", "e">>, ResolvedEngine(args, probe)>> ELSE <<>>)
        \o (IF args.extra_args # NoArgs /\ args.extra_args # <<>>
            THEN args.extra_args ELSE <<>>)

\* where compile stops: the exception it raises, "None" when it returns
CompileError(args, probe, to, cmd) ==
    IF ~probe.pandoc /\ ~PrintOnly(args)
    THEN "RuntimeError: Pandoc is not installed"
    ELSE IF /\ to = Pdf
            /\ ResolvedEngine(args, probe) = NoneStr
            /\ ~PrintOnly(args)
    THEN "RuntimeError: No PDF engine found"
    ELSE IF PrintOnly(args) /\ NoneStr \in Range(cmd)
    THEN "TypeError: sequence item: expected str instance, NoneType found"
    ELSE IF ~PrintOnly(args) /\ ~probe.run_ok
    THEN "CalledProcessError"
    ELSE "None"

\* the record of a compile call: how it ended (exc), what it resolved and
\* built before, what it printed, ran, opened and returned
CompileRecord(args, probe, to, output, cmd, exc) ==
    [op |-> "compile",
     exc |-> exc,
     args |-> args,
     probe |-> probe,
     to |-> IF exc = "RuntimeError: Pandoc is not installed" THEN NoneStr ELSE to,
     output |-> IF exc = "RuntimeError: Pandoc is not installed" THEN NoneStr ELSE output,
     cmd |-> IF exc \in {"RuntimeError: Pandoc is not installed",
                         "RuntimeError: No PDF engine found"}
             THEN <<>> ELSE cmd,
     printed |-> IF exc = "None" /\ PrintOnly(args) THEN Join(<<" ">>, cmd) ELSE NoneStr,
     ran |-> ~PrintOnly(args) /\ exc \in {"None", "CalledProcessError"},
     opened |-> exc = "None" /\ ~PrintOnly(args) /\ args.open_after,
     ret |-> IF exc = "None" THEN output ELSE NoneStr]

\* compile from `# Build Pandoc command` on
Built(args, probe, to, output, cmd) ==
    CompileRecord(args, probe, to, output, cmd, CompileError(args, probe, to, cmd))

\* compile from `# Determine format/extension` on; output is the defaulted path
Resolved(args, probe, output) ==
    Built(args, probe, ResolvedTo(args, output), ResolvedOutput(args, output),
          BuildCommand(args, probe, ResolvedTo(args, output), ResolvedOutput(args, output)))

\* what the call leaves behind: the saved markup unless the converter was
\* found missing, the output file when the converter ran and succeeded
Return(rec) ==
    /\ last' = rec
    /\ md_file' = IF rec.exc = "RuntimeError: Pandoc is not installed"
                  THEN md_file ELSE MarkdownFile(_parts)
    /\ outputs' = IF rec.ran /\ rec.exc = "None"
                  THEN outputs \cup {rec.ret} ELSE outputs
    /\ UNCHANGED <<title, author, _parts, _image_counter, assets, plot_files>>

compile(args, probe) == Return(Resolved(args, probe, DefaultedOutput(args)))

(***************************************************************************)
(* The document builder: any sequence of its operations.                   *)
(***************************************************************************)
\* the compile calls interleaved with the add operations
DocCompileCalls ==
    {<<[output |-> NoneStr, to |-> NoneStr, pdf_engine |-> NoneStr,
        extra_args |-> NoArgs, open_after |-> FALSE,
        print_command_only |-> ~pandoc, wsl_mount |-> NoneStr],
       [pandoc |-> pandoc, engines |-> {<<"p", "d", "f", "l", "a", "t", "e", "x">>},
        run_ok |-> TRUE]>> : pandoc \in BOOLEAN}

AddHeading ==
    /\ \E level \in HeadingLevels : add_heading(<<"h">>, level)
    /\ UNCHANGED <<tableVars, slugVars>>

AddParagraph ==
    /\ \E ptext \in ParagraphTexts : add_paragraph(ptext)
    /\ UNCHANGED <<tableVars, slugVars>>

AddMarkdown ==
    /\ \E md \in MarkdownTexts : add_markdown(md)
    /\ UNCHANGED <<tableVars, slugVars>>

AddTable ==
    /\ \E tbl \in TableObjects, al \in BOOLEAN : add_table(<<"t">>, tbl, al)
    /\ UNCHANGED <<tableVars, slugVars>>

AddImage ==
    /\ \E image_path \in ImagePaths, d \in Decorations : add_image(image_path, d[1], d[2])
    /\ UNCHANGED <<tableVars, slugVars>>

AddPlot ==
    /\ \E fig \in Figures, d \in Decorations, probe \in PlotProbes :
            add_plot(fig, d[1], d[2], probe)
    /\ UNCHANGED <<tableVars, slugVars>>

SaveMarkdown ==
    /\ save_markdown
    /\ UNCHANGED <<tableVars, slugVars>>

Compile ==
    /\ \E c \in DocCompileCalls : compile(c[1], c[2])
    /\ UNCHANGED <<tableVars, slugVars>>

Next ==
    \/ AddHeading
    \/ AddParagraph
    \/ AddMarkdown
    \/ AddTable
    \/ AddImage
    \/ AddPlot
    \/ SaveMarkdown
    \/ Compile

Spec == Init /\ [][Next]_vars

(***************************************************************************)
(* compile called once, with any arguments, on a new Report.               *)
(***************************************************************************)
InitCompile ==
    /\ NewReport(Titles, Authors)
    /\ last = Done("__post_init__")
    /\ NoTableCall
    /\ NoSlugCall

CompileCall ==
    /\ last.op = "__post_init__"
    /\ \E args \in CompileArgs, probe \in CompileProbes : compile(args, probe)
    /\ UNCHANGED <<tableVars, slugVars>>

NextCompile == CompileCall

SpecCompile == InitCompile /\ [][NextCompile]_vars

(***************************************************************************)
(* Claims about the document builder.                                      *)
(***************************************************************************)
\* 'figure-NNN.png' for the figure number k < 1000
FigureName(k) ==
    <<"f", "i", "g", "u", "r", "e", "-">>
        \o <<DigitChar(k \div 100), DigitChar((k \div 10) % 10), DigitChar(k % 10)>>
        \o <<".", "p", "n", "g">>

\* C5 as stated: the add_plot calls produce figure-001.png ... figure-NNN.png
\* in that order, whatever other or failing calls are interleaved.
C5_Original ==
    plot_files = [i \in 1..Len(plot_files) |-> FigureName(i)]

\* the number of empty lines of s
BlankLines(s) ==
    Cardinality({k \in DOMAIN SplitLines(s) : SplitLines(s)[k] = <<>>})

\* C6: the text of K parts holds exactly K-1 blank-line separators and the
\* saved file ends with exactly one newline.
C6_BlankLineSeparators ==
    last.op = "save_markdown" =>
        /\ md_file[Len(md_file)] = NL
        /\ Len(md_file) > 1 => md_file[Len(md_file) - 1] # NL
        /\ BlankLines(SubSeq(md_file, 1, Len(md_file) - 1)) = Len(_parts) - 1

Returned == last.op = "compile" /\ last.exc = "None"

\* C7: an output path's extension wins over `to`; `to` decides the
\* extension only when no output path is given; with neither, pdf.
C7_OutputExtensionWins ==
    Returned =>
        LET a == last.args
        IN  /\ (a.output # NoneStr /\ PathSuffix(a.output) # <<>> /\ a.to # NoneStr)
                => /\ PathSuffix(last.ret) = PathSuffix(a.output)
                   /\ last.to = Lower(Tail(PathSuffix(a.output)))
            /\ (a.output = NoneStr /\ a.to # NoneStr)
                => /\ PathSuffix(last.ret) = <<".">> \o a.to
                   /\ last.to = a.to
            /\ (a.output = NoneStr /\ a.to = NoneStr)
                => /\ PathSuffix(last.ret) = <<".", "p", "d", "f">>
                   /\ last.to = Pdf

\* the engine names a command may carry: the caller's, or a known engine
EngineNames == Range(Engines) \cup ({a.pdf_engine : a \in CompileArgs} \ {NoneStr})

\* C8: the command is converter, -s, --from, format, source, -o, output,
\* --resource-path, assets, -M title, -M author, -M date, then --pdf-engine
\* and the engine name iff the format is pdf, then the extra arguments.
C8_CommandOrder ==
    (last.op = "compile" /\ last.cmd # <<>>) =>
        LET a == last.args
            cmd == last.cmd
            extra == IF a.extra_args = NoArgs THEN <<>> ELSE a.extra_args
            fixed == 15
            engine == IF last.to = Pdf THEN 2 ELSE 0
        IN  /\ Len(cmd) = fixed + engine + Len(extra)
            /\ SubSeq(cmd, 1, 4) = <<<<"p", "a", "n", "d", "o", "c">>, <<"-", "s">>, <<"-", "-", "f", "r", "o", "m">>, <<"g", "f", "m">>>>
            /\ PathName(cmd[5]) = md_filename
            /\ cmd[6] = <<"-", "o">>
            /\ PathName(cmd[7]) = PathName(last.output)
            /\ cmd[8] = <<"-", "-", "r", "e", "s", "o", "u", "r", "c", "e", "-", "p", "a", "t", "h">>
            /\ PathName(cmd[9]) = assets_dirname
            /\ cmd[10] = <<"-", "M">> /\ cmd[11] = <<"t", "i", "t", "l", "e", "=">> \o title
            /\ cmd[12] = <<"-", "M">>
            /\ cmd[13] = <<"a", "u", "t", "h", "o", "r", "=">> \o (IF author = NoneStr THEN <<>> ELSE author)
            /\ cmd[14] = <<"-", "M">> /\ cmd[15] = <<"d", "a", "t", "e", "=">> \o CreatedText
            /\ last.to = Pdf => cmd[16] = <<"-", "-", "p", "d", "f", "-", "e", "n", "g", "i", "n", "e">> /\ cmd[17] \in EngineNames
            /\ last.to # Pdf => <<"-", "-", "p", "d", "f", "-", "e", "n", "g", "i", "n", "e">> \notin Range(cmd)
            /\ SubSeq(cmd, fixed + engine + 1, Len(cmd)) = extra

\* C9: for pdf an explicit engine overrides probing, else the first
\* available engine of the list is used; the no-engine and the
\* converter-missing errors arise only outside dry-run mode, and every
\* dry-run call prints the command and returns the output path without
\* running the converter.
C9_DryRunCompletes ==
    last.op = "compile" =>
        LET a == last.args
        IN  /\ a.print_command_only =>
                /\ last.exc = "None"
                /\ last.printed = Join(<<" ">>, last.cmd)
                /\ last.ret # NoneStr
                /\ ~last.ran
            /\ last.exc \in {"RuntimeError: No PDF engine found",
                             "RuntimeError: Pandoc is not installed"}
                => ~a.print_command_only
            /\ (last.exc = "None" /\ last.to = Pdf) =>
                last.cmd[17] = IF a.pdf_engine # NoneStr THEN a.pdf_engine
                               ELSE _pick_pdf_engine(last.probe.engines)

\* the parts the constructor inserts: the title heading and the metadata line
TitleHeading == <<"#", " ">> \o title

MetadataLine ==
    <<"G", "e", "n", "e", "r", "a", "t", "e", "d", ":", " ">> \o CreatedText
        \o (IF author = NoneStr THEN <<>> ELSE <<" ", "|", " ", "A", "u", "t", "h", "o", "r", ":", " ">> \o author)

\* the parts begin with the title heading and the metadata line
ConstructedFirst ==
    /\ Len(_parts) >= 2
    /\ _parts[1] = TitleHeading
    /\ _parts[2] = MetadataLine

\* a step leaves every part that existed unchanged and in its position
AppendOnly ==
    /\ Len(_parts') >= Len(_parts)
    /\ SubSeq(_parts', 1, Len(_parts)) = _parts

\* C11: after construction and after any sequence of operations the parts
\* begin with the title heading and the metadata line, and every operation
\* leaves the existing parts unchanged and in place, only appending at the end.
C11_PartsAppendOnly == []ConstructedFirst /\ [][AppendOnly]_vars

\* parts added by three different operations, then the markup saved
C11_Witness ==
    /\ Len(_parts) = 4
    /\ _parts[3] = <<"p">>
    /\ _parts[4] = <<"#", "#", " ", "h">>
    /\ last.op = "save_markdown"

\* a step leaves every file of the assets directory as it was written
AssetsKept ==
    \A f \in DOMAIN assets : f \in DOMAIN assets' /\ assets'[f] = assets[f]

\* C12: an asset file written by add_image or add_plot is never overwritten
\* by a later add_image or add_plot call on a different source.
C12_AssetsNeverOverwritten == [][AssetsKept]_vars

\* the figure can be rasterised: a matplotlib Figure or Axes
HasRaster(fig) == fig.kind \in {"Figure", "Axes"}

\* the figure is a declarative chart: a plotly figure
HasChartExport(fig) == fig.kind = "plotly"

\* what C13 says of an add_plot call on fig in the environment probe: a
\* raster figure is saved, the unsupported-figure error is raised only for a
\* figure with neither capability, and a chart whose dependency is missing
\* raises the missing-dependency error (the RuntimeError of
\* _save_plotly_figure), not the unsupported-figure error (TypeError)
DispatchedAsClaimed(fig, probe) ==
    /\ (HasRaster(fig) /\ probe.matplotlib) => last'.exc = "None"
    /\ (last'.exc = "TypeError" /\ probe.matplotlib) =>
            ~HasRaster(fig) /\ ~HasChartExport(fig)
    /\ (HasChartExport(fig) /\ ~(probe.plotly /\ probe.kaleido)) =>
            last'.exc = "RuntimeError"

\* C13: add_plot dispatches raster first, chart export second; it fails with
\* the unsupported-figure error only when the figure has neither capability,
\* and a chart figure whose dependency is missing surfaces the
\* missing-dependency error to the caller.
C13_DistinctPlotErrors ==
    [][\A fig \in Figures, d \in Decorations, probe \in PlotProbes :
            add_plot(fig, d[1], d[2], probe) => DispatchedAsClaimed(fig, probe)]_vars

\* the last call was an add operation that raised
AddFailed ==
    /\ last.op \in {"add_heading", "add_paragraph", "add_markdown", "add_table",
                    "add_image", "add_plot"}
    /\ last.exc # "None"

\* C14: an add operation that fails (add_image on a missing file, add_table
\* on an input without columns or rows, add_plot on an unsupported figure)
\* leaves the parts exactly as they were before the call.
C14_FailedAddKeepsParts == [][AddFailed' => _parts' = _parts]_vars

\* add_image has failed on a missing file after a figure was added
C14_Witness ==
    /\ last.op = "add_image"
    /\ last.exc = "FileNotFoundError"
    /\ Len(_parts) = 3
    /\ Len(plot_files) = 1

=============================================================================
